---- MODULE Spec2Model ----
(***************************************************************************)
(* Model of the XP tracker (BasWilson/exxp).                               *)
(*                                                                         *)
(* The repository holds two variants of the server:                        *)
(*   - src/main.go: the session variant.  Every request builds its own     *)
(*     AppState with initAppState(db, sessionID); the embedded RWMutex is  *)
(*     never locked, so requests interleave at the level of their SQL      *)
(*     statements (PostgreSQL, READ COMMITTED, row locks held until        *)
(*     commit/rollback).  Modelled by SpecSessions.                        *)
(*   - src/unnamed/part_002: the single-state variant.  One AppState is    *)
(*     built at process start and every handler runs under state.Lock(),   *)
(*     so a handler is one atomic step.  Modelled by SpecSingle.           *)
(***************************************************************************)
EXTENDS Integers, Sequences, FiniteSets, TLC

\* ------------------------------------------------------------------ bounds
MaxTasks == 2
MaxUnlockables == 2
MaxTasksP == 2
\* the AppState's TotalXP grows with every add-xp that fails after s.TotalXP += xp
MaxTotalXP == 2400
MaxUnlockablesP == 2
\* the largest total XP the progress percentage is computed for
MaxProgressXP == 1100

\* ------------------------------------------------------- program constants
LevelXP == 1000

\* net/http status codes, as the status line shows them; "" is no response
StatusOK == "200 OK"
StatusFound == "302 Found"
StatusBadRequest == "400 Bad Request"
StatusMethodNotAllowed == "405 Method Not Allowed"
StatusInternalServerError == "500 Internal Server Error"

\* ------------------------------------------------------------------ inputs
Slots == {1, 2}
Tokens == {"A", "B"}
Methods == {"GET", "POST"}
Names == {"", "a"}
Descriptions == {"", "d"}
\* numeric form fields are strings: sequences of characters
XPForms == { <<>>, <<"0">>, <<"3","0","0">>, <<"8","0","0">>, <<"1","2","0","0">> }
LevelForms == { <<>>, <<"x">>, <<"-","1">>, <<"0">>, <<"1">> }
TaskForms == 1..MaxTasks
TaskFormsP == 1..MaxTasksP

\* ------------------------------------------------- conversions of strings
DigitChars == {"0","1","2","3","4","5","6","7","8","9"}

DigitVal(c) ==
  CASE c = "0" -> 0 [] c = "1" -> 1 [] c = "2" -> 2 [] c = "3" -> 3
    [] c = "4" -> 4 [] c = "5" -> 5 [] c = "6" -> 6 [] c = "7" -> 7
    [] c = "8" -> 8 [] c = "9" -> 9

\* length of the longest prefix of s made of digits
RECURSIVE DigitRun(_)
DigitRun(s) ==
  IF s = <<>> \/ Head(s) \notin DigitChars THEN 0 ELSE 1 + DigitRun(Tail(s))

\* value of a sequence of digits, read left to right
RECURSIVE DigitsValue(_, _)
DigitsValue(s, acc) ==
  IF s = <<>> THEN acc ELSE DigitsValue(Tail(s), acc * 10 + DigitVal(Head(s)))

\* the text after an optional leading sign
Unsigned(s) == IF s # <<>> /\ Head(s) \in {"-", "+"} THEN Tail(s) ELSE s
Sign(s) == IF s # <<>> /\ Head(s) = "-" THEN -1 ELSE 1

\* fmt.Sscanf(s, "%d", &v) on a zero-initialised v, error ignored: an
\* optional sign and the longest run of digits are read, the rest of the
\* input is left alone; with no digit the scan fails and v keeps its 0.
Sscanf(s) ==
  LET u == Unsigned(s)
      n == DigitRun(u)
  IN IF n = 0 THEN 0 ELSE Sign(s) * DigitsValue(SubSeq(u, 1, n), 0)

\* PostgreSQL's conversion of a text parameter bound to an INTEGER column:
\* the whole text must be an optionally signed run of digits.
pgInt(s) ==
  LET u == Unsigned(s)
      n == DigitRun(u)
  IN IF n = 0 \/ n # Len(u)
       THEN [ok |-> FALSE, val |-> 0]
       ELSE [ok |-> TRUE, val |-> Sign(s) * DigitsValue(u, 0)]

\* --------------------------------------------------------------- variables
VARIABLES
  \* session variant (src/main.go): the database
  sessions,         \* set of ids that have a row in table sessions
  total_xp,         \* sessions.total_xp, by session id
  tasks,            \* table tasks: sequence of rows, id = position
  unlockables,      \* table unlockables: set of rows
  unlocked_levels,  \* table unlocked_levels: set of rows
  \* session variant: requests in flight, each with its own AppState
  reqs,
  \* single-state variant (src/unnamed/part_002): the database
  app_state,        \* app_state.total_xp of the row id = 1
  tasksP,           \* table tasks
  unlockablesP,     \* table unlockables
  unlocked_levelsP, \* table unlocked_levels: set of levels
  \* single-state variant: the process
  state,            \* the one AppState: TotalXP, Unlocked
  lastReq,          \* the request served last
  lastResp          \* the response written to it

dbS == <<sessions, total_xp, tasks, unlockables, unlocked_levels>>
varsS == <<sessions, total_xp, tasks, unlockables, unlocked_levels, reqs>>
dbP == <<app_state, tasksP, unlockablesP, unlocked_levelsP>>
varsP == <<app_state, tasksP, unlockablesP, unlocked_levelsP, state, lastReq, lastResp>>
vars == <<sessions, total_xp, tasks, unlockables, unlocked_levels, reqs,
          app_state, tasksP, unlockablesP, unlocked_levelsP, state, lastReq, lastResp>>

\* ------------------------------------------------ float64 arithmetic
\* A positive float64 is [bits, scale]: bits is its significand, most
\* significant bit first and 1, and the value is bits * 2^(-scale).
\* Significands are sequences of bits, so that no number here leaves the
\* range of the integers the checker computes with.
F64Mantissa == 53
Percent == 100
\* width of the pieces a significand is multiplied in
ChunkBits == 13

Max(a, b) == IF a >= b THEN a ELSE b

\* 2^n modulo d, by repeated squaring
RECURSIVE Pow2Mod(_, _)
Pow2Mod(n, d) ==
  IF n = 0 THEN 1 % d
  ELSE LET h == Pow2Mod(n \div 2, d)
       IN IF n % 2 = 0 THEN (h * h) % d ELSE (2 * h * h) % d

\* what is left of n/d (0 <= n < d) after i bits behind the binary point
FracRem(n, d, i) == (n * Pow2Mod(i, d)) % d

\* the first len bits of n/d behind the binary point
FracBits(n, d, len) ==
  [i \in 1..len |-> IF 2 * FracRem(n, d, i - 1) >= d THEN 1 ELSE 0]

\* number of 0 bits before the first 1
LeadingZeros(bits) ==
  Cardinality({i \in 1..Len(bits) : \A j \in 1..i : bits[j] = 0})

\* bits + 1
AddOne(bits) ==
  LET zeros == {i \in 1..Len(bits) : bits[i] = 0}
      p == IF zeros = {} THEN 0 ELSE CHOOSE i \in zeros : \A j \in zeros : j <= i
  IN IF p = 0 THEN <<1>> \o [i \in 1..Len(bits) |-> 0]
     ELSE [i \in 1..Len(bits) |-> IF i < p THEN bits[i] ELSE IF i = p THEN 1 ELSE 0]

\* the number that bits lo..hi of bits spell
RECURSIVE BitsValue(_, _, _)
BitsValue(bits, lo, hi) ==
  IF hi < lo THEN 0 ELSE 2 * BitsValue(bits, lo, hi - 1) + bits[hi]

\* the w low binary digits of v
FixedBits(v, w) == [i \in 1..w |-> (v \div 2^(w - i)) % 2]

\* the binary digits of a natural number
RECURSIVE NatBits(_)
NatBits(n) == IF n = 0 THEN <<>> ELSE NatBits(n \div 2) \o <<n % 2>>

\* bits 1..hi of bits, times a small k, plus carry
RECURSIVE MulSmallAt(_, _, _, _)
MulSmallAt(bits, hi, k, carry) ==
  IF hi = 0 THEN NatBits(carry)
  ELSE LET lo == Max(1, hi - ChunkBits + 1)
           w == hi - lo + 1
           v == BitsValue(bits, lo, hi) * k + carry
       IN MulSmallAt(bits, lo - 1, k, v \div 2^w) \o FixedBits(v % 2^w, w)

MulSmall(bits, k) == MulSmallAt(bits, Len(bits), k, 0)

\* round to nearest, ties to even, to F64Mantissa bits; sticky says that
\* the exact value has non-zero bits beyond those given
F64Round(bits, sticky, scale) ==
  IF Len(bits) <= F64Mantissa THEN [bits |-> bits, scale |-> scale]
  ELSE LET keep == SubSeq(bits, 1, F64Mantissa)
           guard == bits[F64Mantissa + 1]
           rest == sticky \/ \E i \in (F64Mantissa + 2)..Len(bits) : bits[i] = 1
           up == guard = 1 /\ (rest \/ keep[F64Mantissa] = 1)
       IN [bits |-> IF up THEN AddOne(keep) ELSE keep,
           scale |-> scale - (Len(bits) - F64Mantissa)]

\* float64(n) / d for integers 0 < n < d
F64Div(n, d) ==
  LET z == LeadingZeros(FracBits(n, d, F64Mantissa))
      len == z + F64Mantissa + 1
      all == FracBits(n, d, len)
  IN F64Round(SubSeq(all, z + 1, len), FracRem(n, d, len) # 0, len)

\* f * k for a small integer k
F64MulSmall(f, k) == F64Round(MulSmall(f.bits, k), FALSE, f.scale)

\* int(f): the fraction is dropped
F64ToInt(f) ==
  IF Len(f.bits) <= f.scale THEN 0
  ELSE BitsValue(f.bits, 1, Len(f.bits) - f.scale)

\* GetProgressPercentage: int(float64(a.TotalXP % 1000) / 1000 * 100)
GetProgressPercentage(a) ==
  LET currentLevelXP == a.TotalXP % LevelXP
  IN IF currentLevelXP = 0 THEN 0
     ELSE F64ToInt(F64MulSmall(F64Div(currentLevelXP, LevelXP), Percent))

\* ------------------------------------------------------------------ levels
Level(xp) == xp \div LevelXP

\* ========================================================================
\* Session variant: src/main.go
\* ========================================================================
MutatingRoutes == {"/add-task/", "/add-xp/", "/add-unlockable/"}

\* a slot with no request in it
IdleReq ==
  [pc |-> "idle", route |-> "/", method |-> "GET", SessionID |-> "",
   name |-> "", xpForm |-> <<>>, task |-> 0, levelForm |-> <<>>,
   description |-> "", TotalXP |-> 0, Unlocked |-> {}, xp |-> 0,
   Tasks |-> {}, Unlockables |-> {}, status |-> "", body |-> ""]

\* http.Error(w, msg, code) followed by return
Fail(q, code, msg) == [q EXCEPT !.pc = "done", !.status = code, !.body = msg]

\* the Task structs getTasks scans for a session
TasksOf(sid) ==
  { [ID |-> i, Name |-> tasks[i].name, XP |-> tasks[i].xp,
     Completed |-> tasks[i].completed] :
      i \in { j \in 1..Len(tasks) : tasks[j].session_id = sid } }

\* the Unlockable structs getUnlockables scans for a session
UnlockablesOf(sid) ==
  { [Level |-> u.level, Description |-> u.description] :
      u \in { v \in unlockables : v.session_id = sid } }

\* rows of tasks / sessions locked by the open transaction of another request
TaskLockedByOther(r, t) ==
  \E o \in Slots \ {r} : reqs[o].pc \in {"updateXP", "commit"} /\ reqs[o].task = t

SessionLockedByOther(r, sid) ==
  \E o \in Slots \ {r} : reqs[o].pc = "commit" /\ reqs[o].SessionID = sid

\* requests that may still insert a row
PendingInserts(route) ==
  Cardinality({ o \in Slots : reqs[o].route = route
                              /\ reqs[o].pc \in {"initAppState", "handler"} })

\* A response is written and delivered before the next step of any request
\* is looked at: the end of a handler touches nothing shared.
NoneDone == \A o \in Slots : reqs[o].pc # "done"

\* A request arrives: net/http picks the handler by the path prefix.  The
\* slots are interchangeable, the lowest free one is taken.  The form is
\* drawn where the handler reads it with r.FormValue.
Arrive(r, route) ==
  /\ NoneDone
  /\ reqs[r].pc = "idle"
  /\ \A o \in Slots : o < r => reqs[o].pc # "idle"
  /\ \E m \in Methods, sid \in Tokens :
       reqs' = [reqs EXCEPT ![r] = [IdleReq EXCEPT !.pc = "initAppState", !.route = route,
                                      !.method = m, !.SessionID = sid]]
  /\ UNCHANGED <<dbS, varsP>>

ArriveAddTask(r) ==
  /\ Len(tasks) + PendingInserts("/add-task/") < MaxTasks
  /\ Arrive(r, "/add-task/")

ArriveAddXP(r) == Arrive(r, "/add-xp/")

ArriveAddUnlockable(r) ==
  /\ Cardinality(unlockables) + PendingInserts("/add-unlockable/") < MaxUnlockables
  /\ Arrive(r, "/add-unlockable/")

\* initSession: INSERT INTO sessions (id) ... ON CONFLICT (id) DO NOTHING
initSession(sid) == sessions \cup {sid}

\* the "/" handler up to its call of initAppState; it never looks at the
\* method
root(r) ==
  /\ NoneDone
  /\ reqs[r].pc = "idle"
  /\ \A o \in Slots : o < r => reqs[o].pc # "idle"
  /\ \E p \in Tokens \cup {""} :
       LET q == [IdleReq EXCEPT !.route = "/", !.SessionID = p] IN
       \/ /\ p = ""
          /\ reqs' = [reqs EXCEPT ![r] = Fail(q, StatusFound, "redirect")]
          /\ UNCHANGED sessions
       \/ /\ p # ""
          /\ \/ /\ sessions' = initSession(p)
                /\ reqs' = [reqs EXCEPT ![r] = [q EXCEPT !.pc = "initAppState"]]
             \/ /\ UNCHANGED sessions
                /\ reqs' = [reqs EXCEPT ![r] = Fail(q, StatusInternalServerError, "store failure")]
  /\ UNCHANGED <<total_xp, tasks, unlockables, unlocked_levels, varsP>>

\* loadUnlockedLevels: the levels of the session's rows with unlocked = true
loadUnlockedLevels(sid) ==
  { u.level : u \in { v \in unlocked_levels : v.session_id = sid /\ v.unlocked } }

\* initAppState: ensure the session row, read total_xp, load the unlocked
\* levels.  One step, taken at the moment of the SELECT of total_xp: the
\* INSERT before it only creates a missing row with total_xp = 0, and
\* unlocked_levels is written by no statement of this variant.
initAppState(r) ==
  LET q == reqs[r] IN
  /\ NoneDone
  /\ q.pc = "initAppState"
  /\ \/ /\ sessions' = initSession(q.SessionID)
        /\ reqs' = [reqs EXCEPT ![r] = [q EXCEPT !.pc = IF q.route = "/" THEN "loadSessionXP"
                                                                       ELSE "handler",
                                          !.TotalXP = total_xp[q.SessionID],
                                          !.Unlocked = loadUnlockedLevels(q.SessionID)]]
     \/ /\ sessions' \in {sessions, initSession(q.SessionID)}
        /\ reqs' = [reqs EXCEPT ![r] = Fail(q, StatusInternalServerError, "store failure")]
  /\ UNCHANGED <<total_xp, tasks, unlockables, unlocked_levels, varsP>>

\* loadSessionXP: the "/" handler reads total_xp a second time
loadSessionXP(r) ==
  LET q == reqs[r] IN
  /\ NoneDone
  /\ q.pc = "loadSessionXP"
  /\ \/ reqs' = [reqs EXCEPT ![r] = [q EXCEPT !.pc = "renderAppState",
                                       !.TotalXP = total_xp[q.SessionID]]]
     \/ reqs' = [reqs EXCEPT ![r] = Fail(q, StatusInternalServerError, "store failure")]
  /\ UNCHANGED <<dbS, varsP>>

\* handleAddTask up to renderAppState: name and xp go to the INSERT as the
\* form gave them
handleAddTask(r) ==
  LET q0 == reqs[r] IN
  /\ NoneDone
  /\ q0.pc = "handler" /\ q0.route = "/add-task/"
  /\ \/ /\ q0.method # "POST"
        /\ reqs' = [reqs EXCEPT ![r] = Fail(q0, StatusMethodNotAllowed, "Method not allowed")]
        /\ UNCHANGED tasks
     \/ /\ q0.method = "POST"
        /\ \E n \in Names, xf \in XPForms :
             LET q == [q0 EXCEPT !.name = n, !.xpForm = xf]
                 x == pgInt(xf)
             IN
             \/ /\ ~x.ok
                /\ reqs' = [reqs EXCEPT ![r] =
                              Fail(q, StatusInternalServerError, "pq: invalid input syntax for type integer")]
                /\ UNCHANGED tasks
             \/ /\ x.ok /\ x.val <= 0
                /\ reqs' = [reqs EXCEPT ![r] =
                              Fail(q, StatusInternalServerError, "pq: violates check constraint")]
                /\ UNCHANGED tasks
             \/ /\ x.ok /\ x.val > 0
                /\ tasks' = Append(tasks, [name |-> n, xp |-> x.val, completed |-> FALSE,
                                           session_id |-> q.SessionID])
                /\ reqs' = [reqs EXCEPT ![r] = [q EXCEPT !.pc = "renderAppState"]]
             \/ /\ reqs' = [reqs EXCEPT ![r] = Fail(q, StatusInternalServerError, "store failure")]
                /\ UNCHANGED tasks
  /\ UNCHANGED <<sessions, total_xp, unlockables, unlocked_levels, varsP>>

\* a WHERE clause that forgets completed = false
Matches_NoCompletedCheck(t, sid) ==
  /\ t \in 1..Len(tasks)
  /\ tasks[t].session_id = sid

\* a WHERE clause that forgets session_id = $2
Matches_NoSessionCheck(t, sid) ==
  /\ t \in 1..Len(tasks)
  /\ ~tasks[t].completed

\* the WHERE clause of handleAddXP's UPDATE tasks:
\* id = $1 AND session_id = $2 AND completed = false
Matches(t, sid) ==
  /\ t \in 1..Len(tasks)
  /\ tasks[t].session_id = sid
  /\ ~tasks[t].completed

\* handleAddXP, first part: method check, Begin, and the
\* UPDATE tasks SET completed = true WHERE id AND session_id AND completed = false
\* RETURNING xp, followed by s.TotalXP += xp.  The UPDATE waits while the
\* row it matches is locked by another transaction and evaluates its WHERE
\* clause again once the lock is gone.
handleAddXP(r) ==
  LET q0 == reqs[r] IN
  /\ NoneDone
  /\ q0.pc = "handler" /\ q0.route = "/add-xp/"
  /\ \/ /\ q0.method # "POST"
        /\ reqs' = [reqs EXCEPT ![r] = Fail(q0, StatusMethodNotAllowed, "Method not allowed")]
     \/ /\ q0.method = "POST"
        /\ \E t \in TaskForms :
             LET q == [q0 EXCEPT !.task = t]
                 match == Matches(t, q.SessionID)
             IN
             \/ reqs' = [reqs EXCEPT ![r] = Fail(q, StatusInternalServerError, "store failure")]
             \/ /\ ~match
                /\ reqs' = [reqs EXCEPT ![r] =
                              Fail(q, StatusBadRequest, "Task already completed or not found")]
             \/ /\ match
                /\ ~TaskLockedByOther(r, t)
                /\ reqs' = [reqs EXCEPT ![r] = [q EXCEPT !.pc = "updateXP",
                                                  !.xp = tasks[t].xp,
                                                  !.TotalXP = q.TotalXP + tasks[t].xp]]
  /\ UNCHANGED <<dbS, varsP>>

\* handleAddXP: UPDATE sessions SET total_xp = s.TotalXP inside the
\* transaction; on an error the deferred Rollback discards the task update.
updateXP(r) ==
  LET q == reqs[r] IN
  /\ NoneDone
  /\ q.pc = "updateXP"
  /\ \/ /\ ~SessionLockedByOther(r, q.SessionID)
        /\ reqs' = [reqs EXCEPT ![r].pc = "commit"]
     \/ reqs' = [reqs EXCEPT ![r] = Fail(q, StatusInternalServerError, "store failure")]
  /\ UNCHANGED <<dbS, varsP>>

\* handleAddXP: tx.Commit makes both updates visible, or fails and the
\* deferred Rollback discards them.
commit(r) ==
  LET q == reqs[r] IN
  /\ NoneDone
  /\ q.pc = "commit"
  /\ \/ /\ tasks' = [tasks EXCEPT ![q.task].completed = TRUE]
        /\ total_xp' = [total_xp EXCEPT ![q.SessionID] = q.TotalXP]
        /\ reqs' = [reqs EXCEPT ![r].pc = "renderAppState"]
     \/ /\ reqs' = [reqs EXCEPT ![r] = Fail(q, StatusInternalServerError, "store failure")]
        /\ UNCHANGED <<tasks, total_xp>>
  /\ UNCHANGED <<sessions, unlockables, unlocked_levels, varsP>>

\* handleAddUnlockable up to renderAppState: level and description go to
\* the INSERT as the form gave them; UNIQUE (level, description) spans the
\* whole table
handleAddUnlockable(r) ==
  LET q0 == reqs[r] IN
  /\ NoneDone
  /\ q0.pc = "handler" /\ q0.route = "/add-unlockable/"
  /\ \/ /\ q0.method # "POST"
        /\ reqs' = [reqs EXCEPT ![r] = Fail(q0, StatusMethodNotAllowed, "Method not allowed")]
        /\ UNCHANGED unlockables
     \/ /\ q0.method = "POST"
        /\ \E lf \in LevelForms, d \in Descriptions :
             LET q == [q0 EXCEPT !.levelForm = lf, !.description = d]
                 l == pgInt(lf)
                 taken == \E u \in unlockables : u.level = l.val /\ u.description = d
             IN
             \/ /\ ~l.ok
                /\ reqs' = [reqs EXCEPT ![r] =
                              Fail(q, StatusInternalServerError, "pq: invalid input syntax for type integer")]
                /\ UNCHANGED unlockables
             \/ /\ l.ok /\ l.val < 0
                /\ reqs' = [reqs EXCEPT ![r] =
                              Fail(q, StatusInternalServerError, "pq: violates check constraint")]
                /\ UNCHANGED unlockables
             \/ /\ l.ok /\ l.val >= 0 /\ taken
                /\ reqs' = [reqs EXCEPT ![r] =
                              Fail(q, StatusInternalServerError, "pq: duplicate key value violates unique constraint")]
                /\ UNCHANGED unlockables
             \/ /\ l.ok /\ l.val >= 0 /\ ~taken
                /\ unlockables' = unlockables \cup
                     {[level |-> l.val, description |-> d, session_id |-> q.SessionID]}
                /\ reqs' = [reqs EXCEPT ![r] = [q EXCEPT !.pc = "renderAppState"]]
             \/ /\ reqs' = [reqs EXCEPT ![r] = Fail(q, StatusInternalServerError, "store failure")]
                /\ UNCHANGED unlockables
  /\ UNCHANGED <<sessions, total_xp, tasks, unlocked_levels, varsP>>

\* renderAppState: getTasks and getUnlockables, then the template is
\* executed on TotalXP, TotalXP / 1000, Tasks, Unlockables and Unlocked
renderAppState(r) ==
  LET q == reqs[r] IN
  /\ NoneDone
  /\ q.pc = "renderAppState"
  /\ \/ reqs' = [reqs EXCEPT ![r] = [q EXCEPT !.pc = "done", !.status = StatusOK,
                                       !.body = IF q.route = "/" THEN "index.html" ELSE "app.html",
                                       !.Tasks = TasksOf(q.SessionID),
                                       !.Unlockables = UnlockablesOf(q.SessionID)]]
     \/ reqs' = [reqs EXCEPT ![r] = Fail(q, StatusInternalServerError, "error getting tasks")]
  /\ UNCHANGED <<dbS, varsP>>

\* the response has been sent; the request and its AppState are gone
Finish(r) ==
  /\ reqs[r].pc = "done"
  /\ reqs' = [reqs EXCEPT ![r] = IdleReq]
  /\ UNCHANGED <<dbS, varsP>>

\* ========================================================================
\* Single-state variant: src/unnamed/part_002
\* ========================================================================
\* the Task structs getTasks scans
TasksP ==
  { [ID |-> i, Name |-> tasksP[i].name, XP |-> tasksP[i].xp,
     Completed |-> tasksP[i].completed] : i \in 1..Len(tasksP) }

\* what a handler hands to tmpl.ExecuteTemplate, read after its writes
Render(file, st, tk, un) ==
  [status |-> StatusOK, body |-> file, TotalXP |-> st.TotalXP,
   CurrentLevel |-> st.TotalXP \div LevelXP, Progress |-> GetProgressPercentage(st),
   Tasks |-> tk, Unlockables |-> un, Unlocked |-> st.Unlocked]

\* http.Error(w, msg, code): nothing is rendered
Error(code, msg) ==
  [status |-> code, body |-> msg, TotalXP |-> 0, CurrentLevel |-> 0, Progress |-> 0,
   Tasks |-> {}, Unlockables |-> {}, Unlocked |-> {}]

NoReq == [route |-> "", method |-> "", name |-> "", xpForm |-> <<>>, task |-> 0,
          levelForm |-> <<>>, description |-> ""]

\* process start: initAppState(db) reads app_state.total_xp and
\* loadUnlockedLevels fills Unlocked from table unlocked_levels
initAppStateP == [TotalXP |-> app_state, Unlocked |-> unlocked_levelsP]

\* the process is started again on the same database
Restart ==
  /\ lastResp.status = ""
  /\ state # initAppStateP
  /\ state' = initAppStateP
  /\ lastReq' = NoReq
  /\ lastResp' = Error("", "")
  /\ UNCHANGED <<dbP, varsS>>

\* GET / : render the state held in memory
IndexP ==
  /\ lastResp.status = ""
  /\ lastReq' = [NoReq EXCEPT !.route = "/", !.method = "GET"]
  /\ \/ lastResp' = Render("index.html", state, TasksP, unlockablesP)
     \/ lastResp' = Error(StatusInternalServerError, "error getting tasks")
  /\ UNCHANGED <<dbP, state, varsS>>

\* /add-task
AddTaskP ==
  \E m \in Methods, n \in Names, x \in XPForms :
    LET xp == Sscanf(x)
        row == [name |-> n, xp |-> xp, completed |-> FALSE]
    IN
    /\ lastResp.status = ""
    /\ Len(tasksP) < MaxTasksP
    /\ lastReq' = [NoReq EXCEPT !.route = "/add-task", !.method = m, !.name = n, !.xpForm = x]
    /\ \/ /\ m # "POST"
          /\ lastResp' = Error(StatusMethodNotAllowed, "Method not allowed")
          /\ UNCHANGED tasksP
       \/ /\ m = "POST"
          /\ n = "" \/ xp <= 0
          /\ lastResp' = Error(StatusBadRequest, "Invalid input")
          /\ UNCHANGED tasksP
       \/ /\ m = "POST"
          /\ ~(n = "" \/ xp <= 0)
          /\ \/ /\ tasksP' = Append(tasksP, row)
                /\ \/ lastResp' = Render("app.html", state,
                                         TasksP \cup {[ID |-> Len(tasksP) + 1, Name |-> n,
                                                       XP |-> xp, Completed |-> FALSE]},
                                         unlockablesP)
                   \/ lastResp' = Error(StatusInternalServerError, "error getting tasks")
             \/ /\ UNCHANGED tasksP
                /\ lastResp' = Error(StatusInternalServerError, "store failure")
    /\ UNCHANGED <<app_state, unlockablesP, unlocked_levelsP, state, varsS>>

\* /add-xp: the handler has no method check.  failAt is the statement of
\* the transaction at which the store fails ("none": it does not); every
\* return before tx.Commit succeeds runs the deferred tx.Rollback, which
\* undoes the writes to the tables and nothing of the AppState.
FailPoints == {"none", "begin", "completeTask", "updateXP", "insertLevel", "commit", "render"}

AddXPP ==
  \E m \in Methods, t \in TaskFormsP, failAt \in FailPoints :
    LET match == t \in 1..Len(tasksP) /\ ~tasksP[t].completed
        xp == tasksP[t].xp
        previousLevel == state.TotalXP \div LevelXP
        newTotal == state.TotalXP + xp
        newLevel == newTotal \div LevelXP
        levels == (previousLevel + 1)..newLevel
        \* the INSERT of a level that has a row already violates the primary key
        dup == { l \in levels : l \in unlocked_levelsP }
        committedState == [TotalXP |-> newTotal, Unlocked |-> state.Unlocked \cup levels]
        committedTasks == [tasksP EXCEPT ![t].completed = TRUE]
    IN
    /\ lastResp.status = ""
    /\ match => newTotal <= MaxTotalXP
    /\ lastReq' = [NoReq EXCEPT !.route = "/add-xp", !.method = m, !.task = t]
    /\ \/ /\ failAt = "begin"
          /\ lastResp' = Error(StatusInternalServerError, "store failure")
          /\ UNCHANGED <<dbP, state>>
       \/ /\ failAt # "begin" /\ ~match
          /\ lastResp' = Error(StatusBadRequest, "Task already completed or not found")
          /\ UNCHANGED <<dbP, state>>
       \/ /\ failAt = "completeTask" /\ match
          /\ lastResp' = Error(StatusInternalServerError, "store failure")
          /\ UNCHANGED <<dbP, state>>
       \/ /\ failAt = "updateXP" /\ match
          /\ state' = [state EXCEPT !.TotalXP = newTotal]
          /\ lastResp' = Error(StatusInternalServerError, "store failure")
          /\ UNCHANGED dbP
       \/ /\ failAt = "insertLevel" /\ match
          /\ \E l \in levels :
               /\ \A e \in dup : l <= e
               /\ state' = [TotalXP |-> newTotal,
                         Unlocked |-> state.Unlocked \cup ((previousLevel + 1)..(l - 1))]
          /\ lastResp' = Error(StatusInternalServerError, "store failure")
          /\ UNCHANGED dbP
       \/ /\ failAt \notin {"begin", "completeTask", "updateXP", "insertLevel"} /\ match
          /\ dup # {}
          /\ LET l == CHOOSE d \in dup : \A e \in dup : d <= e IN
               state' = [TotalXP |-> newTotal,
                         Unlocked |-> state.Unlocked \cup ((previousLevel + 1)..(l - 1))]
          /\ lastResp' = Error(StatusInternalServerError, "pq: duplicate key value violates unique constraint")
          /\ UNCHANGED dbP
       \/ /\ failAt = "commit" /\ match /\ dup = {}
          /\ state' = committedState
          /\ lastResp' = Error(StatusInternalServerError, "store failure")
          /\ UNCHANGED dbP
       \/ /\ failAt \in {"none", "render"} /\ match /\ dup = {}
          /\ state' = committedState
          /\ tasksP' = committedTasks
          /\ app_state' = newTotal
          /\ unlocked_levelsP' = unlocked_levelsP \cup levels
          /\ UNCHANGED unlockablesP
          /\ IF failAt = "render"
               THEN lastResp' = Error(StatusInternalServerError, "error getting tasks")
               ELSE lastResp' = Render("app.html", committedState,
                                       { [ID |-> i, Name |-> committedTasks[i].name,
                                          XP |-> committedTasks[i].xp,
                                          Completed |-> committedTasks[i].completed] :
                                            i \in 1..Len(tasksP) },
                                       unlockablesP)
    /\ UNCHANGED varsS

\* /add-unlockable
AddUnlockableP ==
  \E m \in Methods, lf \in LevelForms, d \in Descriptions :
    LET level == Sscanf(lf)
        row == [level |-> level, description |-> d]
    IN
    /\ lastResp.status = ""
    /\ Cardinality(unlockablesP) < MaxUnlockablesP
    /\ lastReq' = [NoReq EXCEPT !.route = "/add-unlockable", !.method = m,
                                !.levelForm = lf, !.description = d]
    /\ \/ /\ m # "POST"
          /\ lastResp' = Error(StatusMethodNotAllowed, "Method not allowed")
          /\ UNCHANGED unlockablesP
       \/ /\ m = "POST" /\ d = ""
          /\ lastResp' = Error(StatusBadRequest, "Description is required")
          /\ UNCHANGED unlockablesP
       \/ /\ m = "POST" /\ d # "" /\ level < 0
          /\ lastResp' = Error(StatusBadRequest, "Level must be positive")
          /\ UNCHANGED unlockablesP
       \/ /\ m = "POST" /\ d # "" /\ level >= 0
          /\ \/ /\ row \in unlockablesP
                /\ lastResp' = Error(StatusInternalServerError,
                                     "pq: duplicate key value violates unique constraint")
                /\ UNCHANGED unlockablesP
             \/ /\ row \notin unlockablesP
                /\ unlockablesP' = unlockablesP \cup {row}
                /\ \/ lastResp' = Render("index.html", state, TasksP,
                                         { [Level |-> u.level, Description |-> u.description] :
                                             u \in unlockablesP \cup {row} })
                   \/ lastResp' = Error(StatusInternalServerError, "error getting tasks")
             \/ /\ UNCHANGED unlockablesP
                /\ lastResp' = Error(StatusInternalServerError, "store failure")
    /\ UNCHANGED <<app_state, tasksP, unlocked_levelsP, state, varsS>>

\* the response has been sent; the handler has returned and released the lock
Respond ==
  /\ lastResp.status # ""
  /\ lastReq' = NoReq
  /\ lastResp' = Error("", "")
  /\ UNCHANGED <<dbP, state, varsS>>

\* ========================================================================
\* Specifications
\* ========================================================================
\* the single-state process has run initAppState on empty tables, which
\* inserted the app_state row (1, 0)
InitSingle ==
  /\ app_state = 0
  /\ tasksP = <<>>
  /\ unlockablesP = {}
  /\ unlocked_levelsP = {}
  /\ state = [TotalXP |-> 0, Unlocked |-> {}]
  /\ lastReq = NoReq
  /\ lastResp = Error("", "")

\* initDB has created the tables of the session variant, all empty
Init ==
  /\ sessions = {}
  /\ total_xp = [t \in Tokens |-> 0]
  /\ tasks = <<>>
  /\ unlockables = {}
  /\ unlocked_levels = {}
  /\ reqs = [r \in Slots |-> IdleReq]
  /\ InitSingle

\* A database in which add-task requests have created up to MaxTasks tasks
\* for the sessions, none completed yet
InitXPs == {300, 800}
TaskRows == [name : {"a"}, xp : InitXPs, completed : {FALSE}, session_id : Tokens]
TaskTables == UNION { [1..n -> TaskRows] : n \in 0..MaxTasks }

InitXP ==
  /\ tasks \in TaskTables
  /\ sessions = { tasks[i].session_id : i \in 1..Len(tasks) }
  /\ total_xp = [t \in Tokens |-> 0]
  /\ unlockables = {}
  /\ unlocked_levels = {}
  /\ reqs = [r \in Slots |-> IdleReq]
  /\ InitSingle

\* session variant, page loads and task completions
NextSessionsXP ==
  \E r \in Slots :
    \/ root(r)
    \/ ArriveAddXP(r)
    \/ initAppState(r)
    \/ loadSessionXP(r)
    \/ handleAddXP(r)
    \/ updateXP(r)
    \/ commit(r)
    \/ renderAppState(r)
    \/ Finish(r)

SpecSessionsXP == InitXP /\ [][NextSessionsXP]_vars

\* session variant, task completions only
NextSessionsAddXP ==
  \E r \in Slots :
    \/ ArriveAddXP(r)
    \/ initAppState(r)
    \/ handleAddXP(r)
    \/ updateXP(r)
    \/ commit(r)
    \/ renderAppState(r)
    \/ Finish(r)

SpecSessionsAddXP == InitXP /\ [][NextSessionsAddXP]_vars

\* session variant, page loads and task creations
NextSessionsTasks ==
  \E r \in Slots :
    \/ root(r)
    \/ ArriveAddTask(r)
    \/ initAppState(r)
    \/ loadSessionXP(r)
    \/ handleAddTask(r)
    \/ renderAppState(r)
    \/ Finish(r)

SpecSessionsTasks == Init /\ [][NextSessionsTasks]_vars

\* session variant, page loads and registrations of unlockables
NextSessionsUnlockables ==
  \E r \in Slots :
    \/ root(r)
    \/ ArriveAddUnlockable(r)
    \/ initAppState(r)
    \/ loadSessionXP(r)
    \/ handleAddUnlockable(r)
    \/ renderAppState(r)
    \/ Finish(r)

SpecSessionsUnlockables == Init /\ [][NextSessionsUnlockables]_vars

\* single-state variant
NextSingle ==
  \/ IndexP
  \/ AddTaskP
  \/ AddXPP
  \/ AddUnlockableP
  \/ Respond
  \/ Restart

SpecSingle == Init /\ [][NextSingle]_vars

\* progress workload: the single-state process after one task of any xp up
\* to MaxProgressXP has been added and completed (or none), serving GET /,
\* whose page carries GetProgressPercentage of the total
InitProgress ==
  /\ sessions = {}
  /\ total_xp = [t \in Tokens |-> 0]
  /\ tasks = <<>>
  /\ unlockables = {}
  /\ unlocked_levels = {}
  /\ reqs = [r \in Slots |-> IdleReq]
  /\ \E xp \in 0..MaxProgressXP :
       /\ app_state = xp
       /\ tasksP = IF xp = 0 THEN <<>>
                            ELSE <<[name |-> "a", xp |-> xp, completed |-> TRUE]>>
       /\ unlocked_levelsP = 1..Level(xp)
       /\ state = [TotalXP |-> xp, Unlocked |-> 1..Level(xp)]
  /\ unlockablesP = {}
  /\ lastReq = NoReq
  /\ lastResp = Error("", "")

NextProgress ==
  \/ IndexP
  \/ Respond

SpecProgress == InitProgress /\ [][NextProgress]_vars

\* ========================================================================
\* Properties
\* ========================================================================
\* the tasks of a session that are completed, in the database
CompletedOf(sid) ==
  { i \in 1..Len(tasks) : tasks[i].session_id = sid /\ tasks[i].completed }

\* the levels marked unlocked for a session in a given unlocked_levels table
LevelsIn(table, sid) ==
  { u.level : u \in { v \in table : v.session_id = sid /\ v.unlocked } }

\* request r has just committed a task completion
Committed(r) == reqs[r].pc = "commit" /\ reqs'[r].pc = "renderAppState"

\* the tasks of a session that are completed after the step
CompletedOfNext(sid) ==
  { i \in 1..Len(tasks') : tasks'[i].session_id = sid /\ tasks'[i].completed }

\* C1: two add-xp requests for the 300 xp and the 800 xp task of a session
\* whose total is 0, each of which loaded that total before the other
\* committed, leave the session with total_xp = 1100, level 1 and level 1
\* marked unlocked.  Stated for the commit of the second request: it had
\* read the total 0 (TotalXP = xp) and its commit completes the second task.
C1_ConcurrentCompletionsAddUp ==
  [][\A r \in Slots :
       LET q == reqs[r]
           done == CompletedOfNext(q.SessionID)
       IN
       ( /\ Committed(r)
         /\ q.TotalXP = q.xp
         /\ Cardinality(done) = 2
         /\ { tasks[i].xp : i \in done } = {300, 800} )
       => /\ total_xp'[q.SessionID] = 1100
          /\ Level(total_xp'[q.SessionID]) = 1
          /\ 1 \in LevelsIn(unlocked_levels', q.SessionID)
    ]_vars

\* C2: the persisted total XP of a session never decreases
C2_TotalXPNeverDecreases ==
  [][\A sid \in Tokens : total_xp'[sid] >= total_xp[sid]]_vars

\* C3: a completion that commits raises the session's total by exactly the
\* task's xp and sets its completed flag; an add-xp request naming a task
\* that is completed already is refused and changes nothing in the store
C3_CompletionAddsExactlyXP ==
  [][\A r \in Slots :
       LET q == reqs[r] IN
       /\ Committed(r) =>
            /\ total_xp'[q.SessionID] = total_xp[q.SessionID] + q.xp
            /\ tasks'[q.task].completed
       /\ ( /\ q.pc = "handler" /\ q.route = "/add-xp/" /\ q.method = "POST"
            /\ reqs'[r].pc # "handler"
            /\ reqs'[r].task \in CompletedOf(q.SessionID) )
          => /\ reqs'[r].pc = "done"
             /\ reqs'[r].status # StatusOK
             /\ UNCHANGED dbS
    ]_vars

\* C4: a completion that commits marks exactly the levels L with
\* floor(old_total/1000) < L <= floor(new_total/1000) as unlocked
C4_CompletionUnlocksLevels ==
  [][\A r \in Slots :
       LET sid == reqs[r].SessionID IN
       Committed(r) =>
         LevelsIn(unlocked_levels', sid) \ LevelsIn(unlocked_levels, sid)
           = (Level(total_xp[sid]) + 1)..Level(total_xp'[sid])
    ]_vars

\* C5: an add-xp request that ends in a store failure of its transaction
\* leaves the tables and the AppState as they were
C5_FailedCompletionChangesNothing ==
  [][( /\ lastResp.status = ""
       /\ lastReq'.route = "/add-xp" /\ lastReq'.method = "POST"
       /\ lastResp'.status = StatusInternalServerError
       /\ lastResp'.body # "error getting tasks" )
     => /\ UNCHANGED dbP
        /\ state' = state
    ]_vars

\* C6: an Unlockable registered with a level that the session has reached
\* is shown as unlocked in the response to the registration
C6_RegisteredAtReachedLevelIsUnlocked ==
  \A r \in Slots :
    LET q == reqs[r]
        l == pgInt(q.levelForm)
    IN
    ( /\ q.route = "/add-unlockable/"
      /\ q.pc = "done"
      /\ q.status = StatusOK
      /\ l.ok /\ l.val <= Level(q.TotalXP) )
    => l.val \in q.Unlocked

\* C7: sessions are independent; in particular a registration is refused as
\* a duplicate only when its own session holds the (level, description) pair
C7_UniquenessIsPerSession ==
  \A r \in Slots :
    LET q == reqs[r] IN
    ( /\ q.route = "/add-unlockable/"
      /\ q.pc = "done"
      /\ q.body = "pq: duplicate key value violates unique constraint" )
    => \E u \in unlockables :
         /\ u.session_id = q.SessionID
         /\ u.level = pgInt(q.levelForm).val
         /\ u.description = q.description

\* C8: the set of levels the server shows as unlocked never loses a level
C8_UnlockedNeverShrinks ==
  [][state.Unlocked \subseteq state'.Unlocked]_vars

\* C9: a request on a mutating route with a method other than POST is
\* refused and changes no table: no task is created or completed, no XP is
\* added, no unlockable is stored
C9_NonPostIsRejected ==
  [][( /\ lastResp.status = ""
       /\ lastReq'.route \in {"/add-task", "/add-xp", "/add-unlockable"}
       /\ lastReq'.method # "POST" )
     => /\ lastResp'.status # StatusOK
        /\ UNCHANGED dbP
    ]_vars

\* C10: an add-task request whose name is empty or whose xp is an integer
\* that is not positive is answered 400 and adds no task
C10_InvalidTaskIsRejected ==
  [][\A r \in Slots :
       LET q == reqs[r]
           x == pgInt(reqs'[r].xpForm)
       IN
       ( /\ q.pc = "handler" /\ q.route = "/add-task/" /\ q.method = "POST"
         /\ reqs'[r].pc # "handler"
         /\ x.ok
         /\ reqs'[r].name = "" \/ x.val <= 0 )
       => /\ reqs'[r].status = StatusBadRequest
          /\ tasks' = tasks
    ]_vars

\* C11: an add-unlockable request whose level is a negative integer or
\* whose description is empty is answered 400 and stores no unlockable
C11_InvalidUnlockableIsRejected ==
  [][\A r \in Slots :
       LET q == reqs[r]
           l == pgInt(reqs'[r].levelForm)
       IN
       ( /\ q.pc = "handler" /\ q.route = "/add-unlockable/" /\ q.method = "POST"
         /\ reqs'[r].pc # "handler"
         /\ l.ok
         /\ reqs'[r].description = "" \/ l.val < 0 )
       => /\ reqs'[r].status = StatusBadRequest
          /\ unlockables' = unlockables
    ]_vars

\* C12: a POST on add-task whose xp field, or on add-unlockable whose level
\* field, is missing or is not an integer numeral is answered 400 and
\* creates nothing: the field is never read as zero (store failures aside)
C12_UnparseableNumberIsRejected ==
  [][( /\ lastResp.status = ""
       /\ lastReq'.method = "POST"
       /\ \/ lastReq'.route = "/add-task" /\ ~pgInt(lastReq'.xpForm).ok
          \/ lastReq'.route = "/add-unlockable" /\ ~pgInt(lastReq'.levelForm).ok
       /\ lastResp'.body # "store failure" )
     => /\ lastResp'.status = StatusBadRequest
        /\ UNCHANGED dbP
    ]_vars

\* C13: the page a GET / renders shows one state of its session: the total,
\* the tasks with their completed flags and the unlocked levels it shows are
\* those the tables hold together at the moment the tasks are read, also
\* when a completion on that session commits while the page is being built
C13_RenderShowsOneState ==
  [][\A r \in Slots :
       LET q == reqs[r] IN
       ( /\ q.pc = "renderAppState" /\ q.route = "/"
         /\ reqs'[r].status = StatusOK )
       => /\ reqs'[r].TotalXP = total_xp[q.SessionID]
          /\ reqs'[r].Tasks = TasksOf(q.SessionID)
          /\ reqs'[r].Unlocked = loadUnlockedLevels(q.SessionID)
    ]_vars

\* C14: the progress percentage shown for a total XP is an integer from 0
\* to 99, is 0 when the total is a multiple of 1000, and is the floor of
\* (total mod 1000) * 100 / 1000
C14_ProgressIsFloorOfPercent ==
  lastResp.status = StatusOK
    => /\ lastResp.Progress \in 0..(Percent - 1)
       /\ lastResp.TotalXP % LevelXP = 0 => lastResp.Progress = 0
       /\ lastResp.Progress = ((lastResp.TotalXP % LevelXP) * Percent) \div LevelXP

\* the xp of the completed tasks of session sid among the first n tasks
RECURSIVE CompletedXP(_, _)
CompletedXP(sid, n) ==
  IF n = 0 THEN 0
  ELSE CompletedXP(sid, n - 1)
         + (IF tasks[n].session_id = sid /\ tasks[n].completed THEN tasks[n].xp ELSE 0)

\* C15: whenever no add-xp request of a session is in progress, the session's
\* total XP is the sum of the xp of its completed tasks
C15_TotalIsSumOfCompleted ==
  \A sid \in Tokens :
    (\A r \in Slots :
       ~( /\ reqs[r].route = "/add-xp/" /\ reqs[r].SessionID = sid
          /\ reqs[r].pc \notin {"idle", "done"} ))
    => total_xp[sid] = CompletedXP(sid, Len(tasks))

\* the answer of an add-xp request whose UPDATE matched no row, or whose
\* store failed before that was known
Refused(q) ==
  /\ q.pc = "done"
  /\ \/ q.status = StatusBadRequest /\ q.body = "Task already completed or not found"
     \/ q.status = StatusInternalServerError /\ q.body = "store failure"

\* C16: of the add-xp requests of a session that name the same uncompleted
\* task, also when they run at the same time, one completes it and the
\* others are answered 400 "Task already completed or not found": a request
\* whose UPDATE runs once the task is completed is refused and changes no
\* table, a commit always completes a task that was not completed, and a
\* session whose only completed task is t has exactly the xp of t
C16_SameTaskCompletedOnce ==
  [][/\ \A r \in Slots :
          LET q == reqs[r] IN
          /\ ( /\ q.pc = "handler" /\ q.route = "/add-xp/" /\ q.method = "POST"
               /\ reqs'[r].pc # "handler"
               /\ reqs'[r].task \in CompletedOf(q.SessionID) )
             => /\ Refused(reqs'[r])
                /\ UNCHANGED dbS
          /\ Committed(r) => /\ ~tasks[q.task].completed
                             /\ tasks'[q.task].completed
     /\ \A sid \in Tokens : \A t \in 1..Len(tasks') :
          CompletedOfNext(sid) = {t} => total_xp'[sid] = tasks'[t].xp
    ]_vars

\* one request has completed task 1 of its session and the other request of
\* that session, which named the same task while it was uncompleted, has
\* been answered 400
C16_Witness ==
  \E r \in Slots, o \in Slots :
    /\ r # o
    /\ reqs[r].route = "/add-xp/" /\ reqs[r].pc = "renderAppState"
    /\ reqs[o].route = "/add-xp/" /\ reqs[o].pc = "done"
    /\ reqs[o].status = StatusBadRequest
    /\ reqs[o].body = "Task already completed or not found"
    /\ reqs[o].task = reqs[r].task /\ reqs[o].SessionID = reqs[r].SessionID
    /\ reqs[o].TotalXP = reqs[r].TotalXP - reqs[r].xp
    /\ tasks[reqs[r].task].completed
    /\ total_xp[reqs[r].SessionID] = reqs[r].xp

\* C17: an add-xp request of one session that names a task of another
\* session is answered 400 "Task already completed or not found" and
\* changes no table: the task stays uncompleted and both totals stay; and a
\* commit completes a task of the request's own session and changes no other
\* session's total
C17_OtherSessionsTaskIsRefused ==
  [][\A r \in Slots :
       LET q == reqs[r]
           t == reqs'[r].task
       IN
       /\ ( /\ q.pc = "handler" /\ q.route = "/add-xp/" /\ q.method = "POST"
            /\ reqs'[r].pc # "handler"
            /\ t \in 1..Len(tasks)
            /\ tasks[t].session_id # q.SessionID )
          => /\ Refused(reqs'[r])
             /\ UNCHANGED dbS
       /\ Committed(r) =>
            /\ tasks[q.task].session_id = q.SessionID
            /\ \A sid \in Tokens \ {q.SessionID} : total_xp'[sid] = total_xp[sid]
    ]_vars

\* a request of one session has been answered 400 for an uncompleted task of
\* the other session
C17_Witness ==
  \E r \in Slots :
    /\ reqs[r].route = "/add-xp/" /\ reqs[r].pc = "done"
    /\ reqs[r].status = StatusBadRequest
    /\ reqs[r].body = "Task already completed or not found"
    /\ reqs[r].task \in 1..Len(tasks)
    /\ tasks[reqs[r].task].session_id # reqs[r].SessionID
    /\ ~tasks[reqs[r].task].completed

====
